---- MODULE Spec2Model ----
\* FlareWatch gait-monitoring backend (src/server.py): the connection registry
\* (ConnectionManager), the ingestion pipeline (websocket_endpoint and
\* receive_gait_data), the alert evaluator (check_for_alerts), the threshold
\* resolver (get_patient_thresholds, update_patient_thresholds) and the
\* consumer keepalive loop (pharmacist_websocket).
\*
\* Numbers: every gait metric and threshold is kept in tenths of its unit, so
\* 0.8 m/s is 8, 10.0 % is 100 and 30.0 % is 300. Python's None (an absent key,
\* or a JSON null) is the empty sequence <<>> and a present value v is <<v>>, so
\* that absence and the number 0 are different values.
EXTENDS Integers, Sequences, FiniteSets, TLC

\* ---------------------------------------------------------------- bounds
\* Ingestion tasks: each is one producer WebSocket connection or one HTTP POST.
NumTasks == 2
\* Consumer (pharmacist) WebSocket connections.
NumConsumers == 2
\* Frames one producer connection receives before its peer goes quiet.
MaxFrames == 1
\* Records in one historical (batch) frame.
MaxBatch == 2
\* Threshold-update requests in flight at once (one per server process sharing
\* the database).
NumRequests == 2

None == <<>>
Some(v) == <<v>>

Tasks == 1..NumTasks
Consumers == 1..NumConsumers
Requests == 1..NumRequests
Patients == {"p1", "p2"}

\* ------------------------------------------------------- program constants
\* Default thresholds, in tenths (0.8, 10.0, 30.0).
DefaultSpeed == 8
DefaultAsymmetry == 100
DefaultDoubleSupport == 300


\* A present value that is not a number (the JSON string "fast"): a pair, so
\* that it is no Some(v); its first component is not 0, as a non-empty string
\* is truthy.
NotANumber == <<1, 1>>
IsNumber(x) == Len(x) = 1

\* data.get('patient_id') of a sample without the key: Python's None, kept as
\* a reserved string because patient ids are strings.
NoPatientId == "None"

\* Python truthiness of a dict.get() result that is None or a number.
Truthy(x) == x # None /\ x[1] # 0

\* dict.get(key, default) on an optional entry.
DictGet(x, default) == IF x = None THEN default ELSE x[1]

DefaultThresholds ==
    [speed |-> DefaultSpeed, asymmetry |-> DefaultAsymmetry,
     double_support |-> DefaultDoubleSupport]

\* ------------------------------------------------------------ input sets
\* Metric values a sample may carry (tenths) and values an override may store.
SpeedValues == {0, 5, 8}
AsymmetryValues == {0, 150}
DoubleSupportValues == {0, 200, 400}
ThresholdValues == {-1, 5}
Opt(S) == {None} \cup {Some(v) : v \in S}
OptThreshold == Opt(ThresholdValues)

\* One sample record, as the dict the handlers pass around.
EvalSamples ==
    [patient_id : Patients, timestamp : {1},
     walking_speed : Opt(SpeedValues), walking_asymmetry : Opt(AsymmetryValues),
     double_support_time : Opt(DoubleSupportValues), step_count : {None}]
    \cup
    [patient_id : {"p1"}, timestamp : {1},
     walking_speed : {None, Some(0)}, walking_asymmetry : {None, Some(0)},
     double_support_time : {None, Some(400)}, step_count : {Some(120)}]

\* The body of POST /api/patient/{id}/thresholds: any subset of the three keys.
ThresholdUpdates ==
    [walking_speed_threshold : OptThreshold, asymmetry_threshold : OptThreshold,
     double_support_threshold : OptThreshold]

VARIABLES
    DATABASE_URL,            \* TRUE iff the environment configures a database
    patient_thresholds,      \* table patient_thresholds: patient -> None | Some(row)
    txn,                     \* per update request: None | Some(its uncommitted UPSERT)
    last_eval,               \* None, or Some of the last pure evaluation (EvalSpec)
    active_connections,      \* manager.active_connections: patient -> None | Some(task)
    pharmacist_connections,  \* manager.pharmacist_connections: list of consumers
    task,                    \* per ingestion task: position and locals
    pharm,                   \* per consumer handler: position and peer liveness
    acks                     \* per ingestion task: number of acknowledgments sent to it

vars == <<DATABASE_URL, patient_thresholds, txn, last_eval, active_connections,
          pharmacist_connections, task, pharm, acks>>

regvars == <<active_connections, pharmacist_connections, task, pharm, acks>>

\* --------------------------------------------------------- alert evaluator
\* One alert dict. 'value' is the dict entry itself, in the same encoding as
\* the sample's fields; 'message' is the f-string, kept as the two numbers it
\* formats into its text: the value and the threshold.
Alert(type, severity, data, value, threshold) ==
    [type |-> type, message |-> <<value, threshold>>, severity |-> severity,
     patient_id |-> data.patient_id, timestamp |-> data.timestamp, value |-> value]

\* Mutant: the field read with a default of 0, data.get('walking_speed', 0).
SpeedLowDefaultZero(data, thresholds) ==
    DictGet(data.walking_speed, 0) < thresholds.speed

\* The guard of one of the three `if`s of check_for_alerts: a truthiness test
\* of the field, then the comparison.
SpeedLow(data, thresholds) ==
    Truthy(data.walking_speed) /\ data.walking_speed[1] < thresholds.speed

AsymmetryHigh(data, thresholds) ==
    Truthy(data.walking_asymmetry) /\ data.walking_asymmetry[1] > thresholds.asymmetry

DoubleSupportHigh(data, thresholds) ==
    Truthy(data.double_support_time)
    /\ data.double_support_time[1] > thresholds.double_support

\* The `<` or `>` of a truthy field that is not a number raises TypeError, which
\* check_for_alerts does not catch.
CheckRaises(data) ==
    \/ Truthy(data.walking_speed) /\ ~IsNumber(data.walking_speed)
    \/ Truthy(data.walking_asymmetry) /\ ~IsNumber(data.walking_asymmetry)
    \/ Truthy(data.double_support_time) /\ ~IsNumber(data.double_support_time)

\* Mutant: the three `if`s of check_for_alerts in the opposite order.
CheckForAlertsReversed(data, thresholds) ==
    (IF DoubleSupportHigh(data, thresholds)
        THEN <<Alert("double_support_high", "medium", data, data.double_support_time,
                     thresholds.double_support)>>
        ELSE <<>>)
    \o
    (IF AsymmetryHigh(data, thresholds)
        THEN <<Alert("asymmetry_high", "medium", data, data.walking_asymmetry,
                     thresholds.asymmetry)>>
        ELSE <<>>)
    \o
    (IF SpeedLow(data, thresholds)
        THEN <<Alert("walking_speed_low", "high", data, data.walking_speed,
                     thresholds.speed)>>
        ELSE <<>>)

\* check_for_alerts, given the thresholds get_patient_thresholds resolved.
CheckForAlerts(data, thresholds) ==
    (IF SpeedLow(data, thresholds)
        THEN <<Alert("walking_speed_low", "high", data, data.walking_speed,
                     thresholds.speed)>>
        ELSE <<>>)
    \o
    (IF AsymmetryHigh(data, thresholds)
        THEN <<Alert("asymmetry_high", "medium", data, data.walking_asymmetry,
                     thresholds.asymmetry)>>
        ELSE <<>>)
    \o
    (IF DoubleSupportHigh(data, thresholds)
        THEN <<Alert("double_support_high", "medium", data, data.double_support_time,
                     thresholds.double_support)>>
        ELSE <<>>)

\* ------------------------------------------------------ threshold resolver
\* The dict get_patient_thresholds builds from a row of the table.
RowThresholds(row) ==
    [speed |-> row.walking_speed_threshold,
     asymmetry |-> row.asymmetry_threshold,
     double_support |-> row.double_support_threshold]

\* get_patient_thresholds. dbError is the outcome of the query: TRUE when
\* create_engine/execute raises, which the except clause turns into defaults.
GetPatientThresholds(patient_id, dbError) ==
    IF ~DATABASE_URL THEN DefaultThresholds
    ELSE IF dbError THEN DefaultThresholds
    ELSE IF patient_id \in Patients /\ patient_thresholds[patient_id] # None
        THEN RowThresholds(patient_thresholds[patient_id][1])
        ELSE DefaultThresholds

\* The row the UPSERT of update_patient_thresholds writes: every column is
\* taken from the request body, a missing key from the literal default.
UpsertRow(thresholds) ==
    [walking_speed_threshold |->
         DictGet(thresholds.walking_speed_threshold, DefaultSpeed),
     asymmetry_threshold |->
         DictGet(thresholds.asymmetry_threshold, DefaultAsymmetry),
     double_support_threshold |->
         DictGet(thresholds.double_support_threshold, DefaultDoubleSupport)]

\* POST /api/patient/{patient_id}/thresholds. Without a database the handler
\* answers 503, and on a database error 500; neither changes the table.
UpdatePatientThresholds(patient_id, thresholds, dbError) ==
    /\ last_eval = None
    /\ patient_thresholds' =
           IF DATABASE_URL /\ ~dbError
               THEN [patient_thresholds EXCEPT ![patient_id] = Some(UpsertRow(thresholds))]
               ELSE patient_thresholds
    /\ UNCHANGED <<DATABASE_URL, txn, last_eval, regvars>>

\* One call of check_for_alerts(data): resolve, then evaluate. The call has no
\* await in it, so no other handler runs between its start and its return. The
\* caller evaluates any sample, or the sample it has just evaluated once more.
Evaluate(data, dbError) ==
    /\ IF last_eval = None THEN TRUE ELSE last_eval[1].data = data
    /\ LET thresholds == GetPatientThresholds(data.patient_id, dbError)
       IN  last_eval' = Some([data |-> data, thresholds |-> thresholds,
                              alerts |-> CheckForAlerts(data, thresholds)])
    /\ UNCHANGED <<DATABASE_URL, patient_thresholds, txn, regvars>>

\* The caller drops the returned list.
EvalReturn ==
    /\ last_eval # None
    /\ last_eval' = None
    /\ UNCHANGED <<DATABASE_URL, patient_thresholds, txn, regvars>>

\* ------------------------------------------------------------ persistence
\* Whether the INSERT accepts the record: patient_id is NOT NULL and the
\* metric columns are DECIMAL (lines 35-41 of the table's definition).
Storable(data) ==
    /\ data.patient_id # NoPatientId
    /\ \A x \in {data.walking_speed, data.walking_asymmetry, data.double_support_time} :
           x = None \/ IsNumber(x)

\* store_gait_data: the record id, or None without a database or when the
\* INSERT raises (dbError, or a record the table does not accept). The id is a
\* non-empty string, so it is truthy.
StoreGaitData(data, dbError) ==
    IF ~DATABASE_URL THEN None
    ELSE IF dbError \/ ~Storable(data) THEN None
    ELSE Some("id")

\* ------------------------------------------------------ connection registry
\* list.remove(x): the first occurrence is dropped.
RECURSIVE ListRemove(_, _)
ListRemove(list, x) ==
    IF list = <<>> THEN <<>>
    ELSE IF Head(list) = x THEN Tail(list)
    ELSE <<Head(list)>> \o ListRemove(Tail(list), x)

Range(list) == {list[n] : n \in 1..Len(list)}

InList(list, x) == \E n \in 1..Len(list) : list[n] = x

\* disconnect_patient: del active_connections[patient_id] when the key is there.
DisconnectPatient(conns, patient_id) ==
    IF conns[patient_id] # None THEN [conns EXCEPT ![patient_id] = None] ELSE conns

\* Mutant: the most recently appended connection is dropped (pop() for
\* remove(websocket)), whether or not the websocket is in the list.
DisconnectPharmacistPop(list, websocket) ==
    IF list = <<>> THEN list ELSE SubSeq(list, 1, Len(list) - 1)

\* disconnect_pharmacist: remove the websocket when it is in the list.
DisconnectPharmacist(list, websocket) ==
    IF InList(list, websocket) THEN ListRemove(list, websocket) ELSE list

\* Mutant: the clean-up clears the list as soon as one send has failed.
CleanUpAll(list, dead_connections) ==
    [list |-> IF dead_connections = <<>> THEN list ELSE <<>>, raised |-> FALSE]

\* The clean-up loop of notify_pharmacists (lines 131-132): remove() on each
\* dead connection in turn; remove() of a connection that is no longer in the
\* list raises ValueError, which ends the loop with the rest not removed.
RECURSIVE CleanUp(_, _)
CleanUp(list, dead_connections) ==
    IF dead_connections = <<>> THEN [list |-> list, raised |-> FALSE]
    ELSE IF ~InList(list, Head(dead_connections)) THEN [list |-> list, raised |-> TRUE]
    ELSE CleanUp(ListRemove(list, Head(dead_connections)), Tail(dead_connections))

\* ------------------------------------------------------------ event loop
\* asyncio runs one task at a time and switches only at an await. A task at one
\* of these positions is between two awaits: it holds the loop.
SyncPcs == {"store", "alerts", "raised", "ack"}
LoopIdle == \A u \in Tasks : task[u].pc \notin SyncPcs
Holds(t) == \A u \in Tasks \ {t} : task[u].pc \notin SyncPcs

\* Samples the ingestion tasks submit: one that raises no alert under the
\* default thresholds and one that raises one (walking speed 0.5).
Quiet(p) ==
    [patient_id |-> p, timestamp |-> 1, walking_speed |-> Some(8),
     walking_asymmetry |-> None, double_support_time |-> None, step_count |-> None]
Loud(p) ==
    [patient_id |-> p, timestamp |-> 1, walking_speed |-> Some(5),
     walking_asymmetry |-> None, double_support_time |-> None, step_count |-> None]
SpecSamples(p) == {Quiet(p), Loud(p)}

RECURSIVE SeqsUpTo(_, _)
SeqsUpTo(S, n) ==
    IF n = 0 THEN {<<>>}
    ELSE LET shorter == SeqsUpTo(S, n - 1)
         IN  shorter \cup {Append(q, x) : q \in {r \in shorter : Len(r) = n - 1}, x \in S}

\* Inbound frames: the flat single-sample shape, or data_type 'historical'
\* with a list of records (of alerting samples: a record that raises nothing
\* goes the way of one that is not evaluated).
Frames(p) ==
    {[data_type |-> "real_time", records |-> <<s>>] : s \in SpecSamples(p)}
    \cup {[data_type |-> "historical", records |-> r] : r \in SeqsUpTo({Loud(p)}, MaxBatch)}

InitTask ==
    [pc |-> "idle", kind |-> "none", patient_id |-> "", frames |-> 0,
     data_type |-> "none", records |-> <<>>, i |-> 0,
     record_id |-> None, alerts |-> <<>>, a |-> 0,
     it |-> 0, dead_connections |-> <<>>,
     unsent |-> {}, sent |-> <<>>,
     results |-> <<>>, evaluated |-> <<>>, error |-> "none", silent |-> FALSE]

Init ==
    /\ DATABASE_URL \in BOOLEAN
    /\ patient_thresholds = [p \in Patients |-> None]
    /\ txn = [r \in Requests |-> None]
    /\ last_eval = None
    /\ active_connections = [p \in Patients |-> None]
    /\ pharmacist_connections = <<>>
    /\ task = [t \in Tasks |-> InitTask]
    /\ pharm = [k \in Consumers |-> [pc |-> "idle", alive |-> TRUE, stalled |-> FALSE]]
    /\ acks = [t \in Tasks |-> 0]

storevars == <<DATABASE_URL, patient_thresholds, txn, last_eval>>

\* Tasks and patients are interchangeable: tasks start in the order of their
\* numbers and the first one is for "p1".
StartsInOrder(t, p) ==
    /\ t > 1 => task[t - 1].pc # "idle"
    /\ t = 1 => p = "p1"

\* The locals of a frame's processing, forgotten when it ends.
Forget(tk) ==
    [tk EXCEPT !.data_type = "none", !.records = <<>>, !.i = 0, !.record_id = None,
               !.alerts = <<>>, !.a = 0, !.it = 0,
               !.dead_connections = <<>>, !.unsent = {}, !.sent = <<>>,
               !.results = <<>>, !.evaluated = <<>>]

\* A handler that has ended: nothing of it is left but how it ended.
Ended(tk, error) ==
    [Forget(tk) EXCEPT !.pc = "done", !.kind = "none", !.patient_id = "", !.frames = 0,
                       !.error = error]

\* `stalled` of a consumer and `silent` of an ingestion task describe peers that
\* have stopped responding (PeerStalls, PeerSilent below).

\* ---------------------------------------------------------- producer side
\* websocket_endpoint up to its first receive: connect_patient accepts, then
\* overwrites the dict entry of the patient.
ConnectPatient(t, p) ==
    /\ LoopIdle
    /\ task[t].pc = "idle"
    /\ StartsInOrder(t, p)
    /\ active_connections' = [active_connections EXCEPT ![p] = Some(t)]
    /\ task' = [task EXCEPT ![t] =
                   [@ EXCEPT !.pc = "receive_json", !.kind = "ws", !.patient_id = p]]
    /\ UNCHANGED <<storevars, pharmacist_connections, pharm, acks>>

\* receive_gait_data is entered with the parsed body.
HttpPost(t, data) ==
    /\ LoopIdle
    /\ task[t].pc = "idle"
    /\ StartsInOrder(t, data.patient_id)
    /\ task' = [task EXCEPT ![t] =
                   [@ EXCEPT !.pc = "store", !.kind = "http",
                             !.patient_id = data.patient_id,
                             !.data_type = "real_time", !.records = <<data>>, !.i = 1]]
    /\ UNCHANGED <<storevars, active_connections, pharmacist_connections, pharm, acks>>

\* Mutant: frames taken off the socket while the previous frame's broadcast is
\* still suspended in a send.
ReceiveJsonEarly(t, frame) ==
    /\ LoopIdle
    /\ task[t].pc \in {"receive_json", "send_json"}
    /\ ~task[t].silent
    /\ task' = [task EXCEPT ![t] =
                   [@ EXCEPT !.pc = IF frame.records = <<>> THEN "ack" ELSE "store",
                             !.frames = @ + 1,
                             !.data_type = frame.data_type, !.records = frame.records,
                             !.i = 1, !.record_id = None, !.alerts = <<>>, !.a = 0,
                             !.results = <<>>, !.evaluated = <<>>]]
    /\ UNCHANGED <<storevars, active_connections, pharmacist_connections, pharm, acks>>

\* data = await websocket.receive_json() returns a frame. (How many frames a
\* connection carries is bounded where the action is used.)
ReceiveJson(t, frame) ==
    /\ LoopIdle
    /\ task[t].pc = "receive_json"
    /\ ~task[t].silent
    /\ task' = [task EXCEPT ![t] =
                   [@ EXCEPT !.pc = IF frame.records = <<>> THEN "ack" ELSE "store",
                             !.frames = @ + 1,
                             !.data_type = frame.data_type, !.records = frame.records,
                             !.i = 1, !.record_id = None, !.alerts = <<>>, !.a = 0,
                             !.results = <<>>, !.evaluated = <<>>]]
    /\ UNCHANGED <<storevars, active_connections, pharmacist_connections, pharm, acks>>

\* receive_json raises (the peer closed, or the frame is no JSON): both except
\* clauses call disconnect_patient and the handler ends.
ReceiveRaises(t) ==
    /\ LoopIdle
    /\ task[t].pc = "receive_json"
    /\ ~task[t].silent
    /\ active_connections' = DisconnectPatient(active_connections, task[t].patient_id)
    /\ task' = [task EXCEPT ![t] = Ended(@, "transport")]
    /\ UNCHANGED <<storevars, pharmacist_connections, pharm, acks>>

\* Mutant: the historical loop without its `if record_id:`.
EvaluatesAlways(data_type, record_id) == TRUE

\* Whether check_for_alerts runs for a record: always in the real-time branch
\* and in receive_gait_data, only `if record_id:` in the historical loop.
Evaluates(data_type, record_id) ==
    data_type = "historical" => record_id # None

\* store_gait_data(record) and, where the branch evaluates, check_for_alerts,
\* which returns the alerts or raises TypeError.
Store(t, dbError, thError) ==
    /\ Holds(t)
    /\ task[t].pc = "store"
    /\ LET tk == task[t]
           data == tk.records[tk.i]
           record_id == StoreGaitData(data, dbError)
           evaluated == Evaluates(tk.data_type, record_id)
           alerts == IF evaluated /\ ~CheckRaises(data)
                         THEN CheckForAlerts(data,
                                  GetPatientThresholds(data.patient_id, thError))
                         ELSE <<>>
       IN  task' = [task EXCEPT ![t] =
                       IF evaluated /\ CheckRaises(data)
                           THEN [@ EXCEPT !.pc = "raised", !.error = "TypeError",
                                          !.record_id = record_id,
                                          !.results = Append(@, record_id)]
                       ELSE [@ EXCEPT !.pc = "alerts", !.record_id = record_id,
                                      !.alerts = alerts, !.a = 1,
                                      !.results = Append(@, record_id),
                                      !.evaluated =
                                          IF evaluated THEN Append(@, tk.i) ELSE @]]
    /\ UNCHANGED <<storevars, active_connections, pharmacist_connections, pharm, acks>>

\* Mutant: dead_connections.append(connection) outside the except clause, so
\* that every connection the loop has sent to counts as failed.
SendRaisesAlways(connection) == TRUE

\* Whether the awaited connection.send_json raises when the task resumes: the
\* peer has gone.
SendRaises(connection) == ~pharm[connection].alive

\* One turn of `for connection in self.pharmacist_connections`: the list
\* iterator yields the element at its index and moves on, and send_json is
\* awaited. `sent` lists the connections the loop has called send_json on, the
\* last one being the send the task is suspended in; `unsent` is what is left
\* of the list as it was when the call began.
Iterate(tk, list) ==
    LET connection == list[tk.it + 1]
    IN  [tk EXCEPT !.pc = "send_json", !.it = @ + 1,
                   !.unsent = @ \ {connection}, !.sent = Append(@, connection)]

\* Mutant: the historical loop left at the first record that was not stored.
AfterAlertsBreak(tk) ==
    IF tk.data_type = "historical" /\ tk.i < Len(tk.records) /\ tk.record_id # None
        THEN [tk EXCEPT !.pc = "store", !.i = @ + 1]
        ELSE [tk EXCEPT !.pc = "ack"]

\* What follows the loop over a record's alerts.
AfterAlerts(tk) ==
    IF tk.data_type = "historical" /\ tk.i < Len(tk.records)
        THEN [tk EXCEPT !.pc = "store", !.i = @ + 1]
        ELSE [tk EXCEPT !.pc = "ack"]

\* `for alert in alerts: await manager.notify_pharmacists(alert)`: the call
\* returns at once on an empty list and otherwise runs to its first send.
NextAlert(t) ==
    /\ Holds(t)
    /\ task[t].pc = "alerts"
    /\ LET tk == task[t]
       IN  task' = [task EXCEPT ![t] =
                       IF tk.a > Len(tk.alerts) THEN AfterAlerts(tk)
                       ELSE IF pharmacist_connections = <<>>
                           THEN [tk EXCEPT !.a = @ + 1, !.unsent = {}, !.sent = <<>>,
                                           !.dead_connections = <<>>, !.it = 0]
                       ELSE Iterate([tk EXCEPT !.it = 0, !.dead_connections = <<>>,
                                               !.unsent = Range(pharmacist_connections),
                                               !.sent = <<>>],
                                    pharmacist_connections)]
    /\ UNCHANGED <<storevars, active_connections, pharmacist_connections, pharm, acks>>

\* The task resumes after a send, which has returned or has raised (the except
\* clause then appends the connection to dead_connections): the iterator's
\* next element, or, when its index has reached the list's current length, the
\* end of the loop and the clean-up of lines 131-132. The call then returns,
\* or the ValueError of a remove() leaves notify_pharmacists.
SendJson(t) ==
    /\ LoopIdle
    /\ task[t].pc = "send_json"
    /\ ~pharm[task[t].sent[Len(task[t].sent)]].stalled
    /\ LET connection == task[t].sent[Len(task[t].sent)]
           tk == IF SendRaises(connection)
                     THEN [task[t] EXCEPT !.dead_connections = Append(@, connection)]
                     ELSE task[t]
           res == CleanUp(pharmacist_connections, tk.dead_connections)
       IN  IF tk.it < Len(pharmacist_connections)
               THEN /\ task' = [task EXCEPT ![t] = Iterate(tk, pharmacist_connections)]
                    /\ UNCHANGED pharmacist_connections
               ELSE /\ pharmacist_connections' = res.list
                    /\ task' = [task EXCEPT ![t] =
                                   IF res.raised
                                       THEN [tk EXCEPT !.pc = "raised",
                                                       !.error = "ValueError"]
                                   ELSE [tk EXCEPT !.pc = "alerts", !.a = @ + 1]]
    /\ UNCHANGED <<storevars, active_connections, pharm, acks>>

\* The exception (the ValueError of notify_pharmacists, the TypeError of
\* check_for_alerts) reaches the handler: `except Exception` of
\* websocket_endpoint unregisters the patient and the handler ends;
\* receive_gait_data has no handler and the request ends with status 500.
Raised(t) ==
    /\ Holds(t)
    /\ task[t].pc = "raised"
    /\ active_connections' =
           IF task[t].kind = "ws"
               THEN DisconnectPatient(active_connections, task[t].patient_id)
               ELSE active_connections
    /\ task' = [task EXCEPT ![t] = Ended(@, @.error)]
    /\ UNCHANGED <<storevars, pharmacist_connections, pharm, acks>>

\* records_processed of the batch acknowledgment (line 326).
RecordsProcessed(records, results) == Len(records)

\* The 'status' of the acknowledgment (lines 325, 341, 395).
AckStatus(kind, data_type, record_id) ==
    IF kind = "http" THEN "success"
    ELSE IF data_type = "historical" THEN "batch_received"
    ELSE "received"

\* The acknowledgment: the batch frame (lines 324-328), the real-time frame
\* (340-345) or the body receive_gait_data returns (394-399), without its
\* timestamp.
AckFrame(tk) ==
    IF tk.data_type = "historical"
        THEN [status |-> AckStatus(tk.kind, tk.data_type, tk.record_id),
              records_processed |-> RecordsProcessed(tk.records, tk.results)]
    ELSE IF tk.kind = "http"
        THEN [status |-> AckStatus(tk.kind, tk.data_type, tk.record_id),
              record_id |-> tk.record_id,
              alerts |-> Len(tk.alerts)]
    ELSE [status |-> AckStatus(tk.kind, tk.data_type, tk.record_id),
          record_id |-> tk.record_id,
          alerts_triggered |-> Len(tk.alerts)]

\* await websocket.send_json(AckFrame), or the return of receive_gait_data. A
\* send that raises takes the `except` path of websocket_endpoint.
Ack(t, ok) ==
    /\ Holds(t)
    /\ task[t].pc = "ack"
    /\ task[t].kind = "http" => ok
    /\ LET tk == task[t]
       IN  IF ok
               THEN /\ acks' = [acks EXCEPT ![t] = @ + 1]
                    /\ task' = [task EXCEPT ![t] =
                                   IF tk.kind = "http" THEN Ended(tk, "none")
                                   ELSE Forget([tk EXCEPT !.pc = "receive_json"])]
                    /\ UNCHANGED active_connections
               ELSE /\ acks' = acks
                    /\ task' = [task EXCEPT ![t] = Ended(tk, "transport")]
                    /\ active_connections' =
                           DisconnectPatient(active_connections, tk.patient_id)
    /\ UNCHANGED <<storevars, pharmacist_connections, pharm>>

\* ---------------------------------------------------------- consumer side
\* Mutant: the websocket appended twice.
ConnectPharmacistTwice(k) ==
    /\ LoopIdle
    /\ pharm[k].pc = "idle"
    /\ k > 1 => pharm[k - 1].pc # "idle"
    /\ pharmacist_connections' = Append(Append(pharmacist_connections, k), k)
    /\ pharm' = [pharm EXCEPT ![k].pc = "established"]
    /\ UNCHANGED <<storevars, active_connections, task, acks>>

\* pharmacist_websocket up to its first send: connect_pharmacist accepts and
\* appends, then the 'connection_established' frame is sent.
ConnectPharmacist(k) ==
    /\ LoopIdle
    /\ pharm[k].pc = "idle"
    /\ k > 1 => pharm[k - 1].pc # "idle"
    /\ pharmacist_connections' = Append(pharmacist_connections, k)
    /\ pharm' = [pharm EXCEPT ![k].pc = "established"]
    /\ UNCHANGED <<storevars, active_connections, task, acks>>

\* The first send returns, or raises: the outer except clauses then call
\* disconnect_pharmacist.
Established(k) ==
    /\ LoopIdle
    /\ pharm[k].pc = "established"
    /\ ~pharm[k].stalled
    /\ IF pharm[k].alive
          THEN /\ pharm' = [pharm EXCEPT ![k].pc = "sleep"]
               /\ UNCHANGED pharmacist_connections
          ELSE /\ pharm' = [pharm EXCEPT ![k].pc = "done"]
               /\ pharmacist_connections' =
                      DisconnectPharmacist(pharmacist_connections, k)
    /\ UNCHANGED <<storevars, active_connections, task, acks>>

\* asyncio.sleep(30) returns and the heartbeat is sent; a send that raises is
\* caught by the bare `except:` whose body is `break`, and the handler returns.
Heartbeat(k) ==
    /\ LoopIdle
    /\ pharm[k].pc = "sleep"
    /\ ~pharm[k].stalled
    /\ pharm' = [pharm EXCEPT ![k].pc = IF pharm[k].alive THEN "sleep" ELSE "done"]
    /\ UNCHANGED <<storevars, active_connections, pharmacist_connections, task, acks>>

\* The consumer's peer goes away: every later send to it raises.
PeerGone(k) ==
    /\ LoopIdle
    /\ pharm[k].pc # "idle"
    /\ pharm[k].alive
    /\ pharm' = [pharm EXCEPT ![k].alive = FALSE]
    /\ UNCHANGED <<storevars, active_connections, pharmacist_connections, task, acks>>

\* The consumer's peer stops reading without closing: the transport's buffer
\* fills and an awaited send_json on the websocket (lines 125, 358, 369) neither
\* returns nor raises from then on. No send in the program has a timeout.
PeerStalls(k) ==
    /\ LoopIdle
    /\ pharm[k].pc # "idle"
    /\ pharm[k].alive
    /\ ~pharm[k].stalled
    /\ pharm' = [pharm EXCEPT ![k].stalled = TRUE]
    /\ UNCHANGED <<storevars, active_connections, pharmacist_connections, task, acks>>

\* The producer's peer falls silent without closing: the receive_json the
\* handler awaits (line 310, no timeout) neither returns nor raises.
PeerSilent(t) ==
    /\ LoopIdle
    /\ task[t].pc = "receive_json"
    /\ ~task[t].silent
    /\ task' = [task EXCEPT ![t].silent = TRUE]
    /\ UNCHANGED <<storevars, active_connections, pharmacist_connections, pharm, acks>>

Next ==
    \/ \E t \in Tasks, p \in Patients : ConnectPatient(t, p)
    \/ \E t \in Tasks : \E s \in SpecSamples("p1") : HttpPost(t, s)
    \/ \E t \in Tasks : \E frame \in Frames(task[t].patient_id) :
           task[t].frames < MaxFrames /\ ReceiveJson(t, frame)
    \/ \E t \in Tasks : ReceiveRaises(t)
    \/ \E t \in Tasks, dbError \in BOOLEAN, thError \in BOOLEAN : Store(t, dbError, thError)
    \/ \E t \in Tasks : NextAlert(t)
    \/ \E t \in Tasks : SendJson(t)
    \/ \E t \in Tasks : Raised(t)
    \/ \E t \in Tasks, ok \in BOOLEAN : Ack(t, ok)
    \/ \E k \in Consumers : ConnectPharmacist(k)
    \/ \E k \in Consumers : Established(k)
    \/ \E k \in Consumers : Heartbeat(k)
    \/ \E k \in Consumers : PeerGone(k)

Spec == Init /\ [][Next]_vars

\* ------------------------------------------- evaluator and resolver alone
EvalNext ==
    \/ \E p \in Patients, th \in ThresholdUpdates, dbError \in BOOLEAN :
           UpdatePatientThresholds(p, th, dbError)
    \/ \E data \in EvalSamples, dbError \in BOOLEAN : Evaluate(data, dbError)
    \/ EvalReturn

EvalSpec == Init /\ [][EvalNext]_vars

\* ------------------------------------ threshold updates, as the database
\* sees them: update_patient_thresholds is one UPSERT statement that writes the
\* three columns of the patient's row, then conn.commit(). Requests handled by
\* different server processes overlap between the two; a resolve in between
\* reads committed rows only.
Body(speed, asymmetry, double_support) ==
    [walking_speed_threshold |-> speed, asymmetry_threshold |-> asymmetry,
     double_support_threshold |-> double_support]

\* Request bodies: all three keys with one value, or one key alone.
UpdateBodies ==
    {Body(Some(v), Some(v), Some(v)) : v \in ThresholdValues}
    \cup {Body(Some(v), None, None) : v \in ThresholdValues}
    \cup {Body(None, Some(v), None) : v \in ThresholdValues}

\* conn.execute(INSERT ... ON CONFLICT DO UPDATE): the row is written inside
\* the request's transaction. A second UPSERT of the same patient_id waits for
\* the first transaction to end (the row is locked).
UpdateExecute(r, patient_id, thresholds) ==
    /\ DATABASE_URL
    /\ txn[r] = None
    /\ \A q \in Requests : txn[q] # None => txn[q][1].patient_id # patient_id
    /\ txn' = [txn EXCEPT ![r] =
                  Some([patient_id |-> patient_id, thresholds |-> thresholds])]
    /\ UNCHANGED <<DATABASE_URL, patient_thresholds, last_eval, regvars>>

\* Mutant: on a conflict the columns are committed one at a time; this step
\* commits the first.
UpdateCommitColumn(r) ==
    /\ txn[r] # None
    /\ LET u == txn[r][1]
           new == UpsertRow(u.thresholds)
           old == patient_thresholds[u.patient_id]
       IN  patient_thresholds' =
               [patient_thresholds EXCEPT ![u.patient_id] =
                   IF old = None THEN Some(new)
                   ELSE Some([old[1] EXCEPT !.walking_speed_threshold =
                                                new.walking_speed_threshold])]
    /\ txn' = [txn EXCEPT ![r] = None]
    /\ UNCHANGED <<DATABASE_URL, last_eval, regvars>>

\* conn.commit(): the whole row becomes visible at once and the handler
\* answers "success".
UpdateCommit(r) ==
    /\ txn[r] # None
    /\ LET u == txn[r][1]
       IN  patient_thresholds' =
               [patient_thresholds EXCEPT ![u.patient_id] =
                   Some(UpsertRow(u.thresholds))]
    /\ txn' = [txn EXCEPT ![r] = None]
    /\ UNCHANGED <<DATABASE_URL, last_eval, regvars>>

\* The statement or the commit raises: the connection's context manager rolls
\* the transaction back and the handler answers 500.
UpdateRollback(r) ==
    /\ txn[r] # None
    /\ txn' = [txn EXCEPT ![r] = None]
    /\ UNCHANGED <<DATABASE_URL, patient_thresholds, last_eval, regvars>>

ThresholdNext ==
    \/ \E r \in Requests, p \in Patients, th \in UpdateBodies : UpdateExecute(r, p, th)
    \/ \E r \in Requests : UpdateCommit(r)
    \/ \E r \in Requests : UpdateRollback(r)
    \/ \E p \in Patients : \E data \in SpecSamples(p) : \E dbError \in BOOLEAN :
           Evaluate(data, dbError)
    \/ EvalReturn

ThresholdSpec == Init /\ [][ThresholdNext]_vars

\* ------------------------------------- ingestion of ill-formed samples
\* A sample without patient_id (its speed raises an alert under the defaults)
\* and a sample whose walking_speed is a string.
Unidentified ==
    [patient_id |-> NoPatientId, timestamp |-> 1, walking_speed |-> Some(5),
     walking_asymmetry |-> None, double_support_time |-> None, step_count |-> None]
Malformed(p) ==
    [patient_id |-> p, timestamp |-> 1, walking_speed |-> NotANumber,
     walking_asymmetry |-> None, double_support_time |-> None, step_count |-> None]
IngestSamples(p) == {Loud(p), Unidentified, Malformed(p)}

IngestFrames(p) ==
    {[data_type |-> "real_time", records |-> <<s>>] : s \in IngestSamples(p)}
    \cup {[data_type |-> "historical", records |-> r] :
             r \in SeqsUpTo({Loud(p), Malformed(p)}, MaxBatch) \ {<<>>}}

\* The handlers of Spec on these inputs, with consumers that stay connected.
IngestNext ==
    \/ \E t \in Tasks, p \in Patients : ConnectPatient(t, p)
    \/ \E t \in Tasks : \E s \in IngestSamples("p1") : HttpPost(t, s)
    \/ \E t \in Tasks : \E frame \in IngestFrames(task[t].patient_id) :
           task[t].frames < MaxFrames /\ ReceiveJson(t, frame)
    \/ \E t \in Tasks : ReceiveRaises(t)
    \/ \E t \in Tasks, dbError \in BOOLEAN, thError \in BOOLEAN : Store(t, dbError, thError)
    \/ \E t \in Tasks : NextAlert(t)
    \/ \E t \in Tasks : SendJson(t)
    \/ \E t \in Tasks : Raised(t)
    \/ \E t \in Tasks, ok \in BOOLEAN : Ack(t, ok)
    \/ \E k \in Consumers : ConnectPharmacist(k)
    \/ \E k \in Consumers : Established(k)
    \/ \E k \in Consumers : Heartbeat(k)

IngestSpec == Init /\ [][IngestNext]_vars

\* --------------------------------------- several frames on a connection
\* Frames one ingestion connection carries in FifoSpec.
MaxFifoFrames == 2

\* The websocket handlers of Spec with connections that carry several frames.
FifoNext ==
    \/ \E t \in Tasks, p \in Patients : ConnectPatient(t, p)
    \/ \E t \in Tasks : \E frame \in Frames(task[t].patient_id) :
           task[t].frames < MaxFifoFrames /\ ReceiveJson(t, frame)
    \/ \E t \in Tasks : ReceiveRaises(t)
    \/ \E t \in Tasks, dbError \in BOOLEAN, thError \in BOOLEAN : Store(t, dbError, thError)
    \/ \E t \in Tasks : NextAlert(t)
    \/ \E t \in Tasks : SendJson(t)
    \/ \E t \in Tasks : Raised(t)
    \/ \E t \in Tasks, ok \in BOOLEAN : Ack(t, ok)
    \/ \E k \in Consumers : ConnectPharmacist(k)
    \/ \E k \in Consumers : Established(k)
    \/ \E k \in Consumers : Heartbeat(k)
    \/ \E k \in Consumers : PeerGone(k)

FifoSpec == Init /\ [][FifoNext]_vars

\* ------------------------------------- samples that raise several alerts
\* A sample beyond all three default thresholds.
Triple(p) ==
    [patient_id |-> p, timestamp |-> 1, walking_speed |-> Some(5),
     walking_asymmetry |-> Some(150), double_support_time |-> Some(400),
     step_count |-> None]

\* One real-time frame and one batch, both with a sample of three alerts.
OrderFrames(p) ==
    {[data_type |-> "real_time", records |-> <<Triple(p)>>],
     [data_type |-> "historical", records |-> <<Loud(p), Triple(p)>>]}

\* The websocket handlers of Spec on these frames.
OrderNext ==
    \/ \E t \in Tasks, p \in Patients : ConnectPatient(t, p)
    \/ \E t \in Tasks : \E frame \in OrderFrames(task[t].patient_id) :
           task[t].frames < MaxFrames /\ ReceiveJson(t, frame)
    \/ \E t \in Tasks : ReceiveRaises(t)
    \/ \E t \in Tasks, dbError \in BOOLEAN, thError \in BOOLEAN : Store(t, dbError, thError)
    \/ \E t \in Tasks : NextAlert(t)
    \/ \E t \in Tasks : SendJson(t)
    \/ \E t \in Tasks : Raised(t)
    \/ \E t \in Tasks, ok \in BOOLEAN : Ack(t, ok)
    \/ \E k \in Consumers : ConnectPharmacist(k)
    \/ \E k \in Consumers : Established(k)
    \/ \E k \in Consumers : Heartbeat(k)
    \/ \E k \in Consumers : PeerGone(k)

OrderSpec == Init /\ [][OrderNext]_vars

\* ----------------------------------- the two single-sample submissions
\* notify_pharmacists when each awaited send completes before any other task
\* runs: every connection of the list is sent to, those whose send raises are
\* removed.
NotifyAtOnce(list) ==
    LET dead_connections == SelectSeq(list, LAMBDA connection : SendRaises(connection))
        res == CleanUp(list, dead_connections)
    IN  [sent |-> list, list |-> res.list, raised |-> res.raised]

\* `for alert in alerts: await manager.notify_pharmacists(alert)`, likewise:
\* the sends as <<alert, connection>> in order, the list that is left, and
\* whether a call raised.
RECURSIVE NotifyEach(_, _)
NotifyEach(alerts, list) ==
    IF alerts = <<>> THEN [sends |-> <<>>, list |-> list, raised |-> FALSE]
    ELSE LET one == NotifyAtOnce(list)
             these == [n \in 1..Len(one.sent) |-> <<Head(alerts), one.sent[n]>>]
             rest == NotifyEach(Tail(alerts), one.list)
         IN  IF one.raised
                 THEN [sends |-> these, list |-> one.list, raised |-> TRUE]
                 ELSE [sends |-> these \o rest.sends, list |-> rest.list,
                       raised |-> rest.raised]

\* What one run of a handler on a sample does: the record handed to
\* store_gait_data and the id it returned, the evaluated alerts, the sends,
\* the consumer list afterwards, the exception that ended it and the body it
\* reported (None when it raised).
Outcome(data, record_id, alerts, sent, error, body) ==
    [stored |-> data, record_id |-> record_id, alerts |-> alerts,
     sends |-> sent.sends, list |-> sent.list,
     error |-> IF error # "none" THEN error
               ELSE IF sent.raised THEN "ValueError" ELSE "none",
     body |-> IF error # "none" \/ sent.raised THEN None ELSE Some(body)]

\* Mutant: the real-time branch evaluating only `if record_id:`, as the
\* historical loop does.
RealTimeFrameGuarded(data, dbError, thError) ==
    LET record_id == StoreGaitData(data, dbError)
        nothing == [sends |-> <<>>, list |-> pharmacist_connections, raised |-> FALSE]
        alerts == IF record_id = None THEN <<>>
                  ELSE CheckForAlerts(data, GetPatientThresholds(data.patient_id, thError))
    IN  IF CheckRaises(data)
            THEN Outcome(data, record_id, <<>>, nothing, "TypeError", None)
            ELSE Outcome(data, record_id, alerts,
                         NotifyEach(alerts, pharmacist_connections), "none",
                         AckFrame([kind |-> "ws", data_type |-> "real_time",
                                   record_id |-> record_id, alerts |-> alerts]))

\* The real-time branch of websocket_endpoint (lines 329-345) on one frame.
RealTimeFrame(data, dbError, thError) ==
    LET record_id == StoreGaitData(data, dbError)
        nothing == [sends |-> <<>>, list |-> pharmacist_connections, raised |-> FALSE]
        alerts == CheckForAlerts(data, GetPatientThresholds(data.patient_id, thError))
    IN  IF CheckRaises(data)
            THEN Outcome(data, record_id, <<>>, nothing, "TypeError", None)
            ELSE Outcome(data, record_id, alerts,
                         NotifyEach(alerts, pharmacist_connections), "none",
                         AckFrame([kind |-> "ws", data_type |-> "real_time",
                                   record_id |-> record_id, alerts |-> alerts]))

\* receive_gait_data (lines 384-399) on one request body.
ReceiveGaitData(data, dbError, thError) ==
    LET record_id == StoreGaitData(data, dbError)
        nothing == [sends |-> <<>>, list |-> pharmacist_connections, raised |-> FALSE]
        alerts == CheckForAlerts(data, GetPatientThresholds(data.patient_id, thError))
    IN  IF CheckRaises(data)
            THEN Outcome(data, record_id, <<>>, nothing, "TypeError", None)
            ELSE Outcome(data, record_id, alerts,
                         NotifyEach(alerts, pharmacist_connections), "none",
                         AckFrame([kind |-> "http", data_type |-> "real_time",
                                   record_id |-> record_id, alerts |-> alerts]))

\* Payloads of a single-sample submission.
TwinSamples(p) == {Quiet(p), Loud(p), Triple(p), Unidentified, Malformed(p)}

\* POST /api/gait-data served without another task running meanwhile.
HttpRequest(data, dbError, thError) ==
    /\ LoopIdle
    /\ pharmacist_connections' = ReceiveGaitData(data, dbError, thError).list
    /\ UNCHANGED <<storevars, active_connections, task, pharm, acks>>

\* A real-time frame received and served without another task running
\* meanwhile: acknowledged, or the handler ended by the exception.
WsFrame(t, data, dbError, thError) ==
    /\ LoopIdle
    /\ task[t].pc = "receive_json"
    /\ ~task[t].silent
    /\ LET out == RealTimeFrame(data, dbError, thError)
       IN  /\ pharmacist_connections' = out.list
           /\ IF out.error = "none"
                  THEN /\ acks' = [acks EXCEPT ![t] = @ + 1]
                       /\ task' = [task EXCEPT ![t].frames = @ + 1]
                       /\ UNCHANGED active_connections
                  ELSE /\ acks' = acks
                       /\ task' = [task EXCEPT ![t] = Ended(@, out.error)]
                       /\ active_connections' =
                              DisconnectPatient(active_connections, task[t].patient_id)
    /\ UNCHANGED <<storevars, pharm>>

TwinNext ==
    \/ \E p \in Patients, th \in UpdateBodies, dbError \in BOOLEAN :
           UpdatePatientThresholds(p, th, dbError)
    \/ \E t \in Tasks, p \in Patients : ConnectPatient(t, p)
    \/ \E s \in TwinSamples("p1"), dbError \in BOOLEAN, thError \in BOOLEAN :
           HttpRequest(s, dbError, thError)
    \/ \E t \in Tasks : \E s \in TwinSamples(task[t].patient_id),
                             dbError \in BOOLEAN, thError \in BOOLEAN :
           task[t].frames < MaxFrames /\ WsFrame(t, s, dbError, thError)
    \/ \E k \in Consumers : ConnectPharmacist(k)
    \/ \E k \in Consumers : Established(k)
    \/ \E k \in Consumers : Heartbeat(k)
    \/ \E k \in Consumers : PeerGone(k)

TwinSpec == Init /\ [][TwinNext]_vars

\* ------------------------------------------ peers that stop responding
\* The websocket handlers with peers that never close but may stop reading or
\* stop sending.
QuietNext ==
    \/ \E t \in Tasks, p \in Patients : ConnectPatient(t, p)
    \/ \E t \in Tasks : \E frame \in Frames(task[t].patient_id) :
           task[t].frames < MaxFrames /\ ReceiveJson(t, frame)
    \/ \E t \in Tasks, dbError \in BOOLEAN, thError \in BOOLEAN : Store(t, dbError, thError)
    \/ \E t \in Tasks : NextAlert(t)
    \/ \E t \in Tasks : SendJson(t)
    \/ \E t \in Tasks : Ack(t, TRUE)
    \/ \E k \in Consumers : ConnectPharmacist(k)
    \/ \E k \in Consumers : Established(k)
    \/ \E k \in Consumers : Heartbeat(k)
    \/ \E k \in Consumers : PeerStalls(k)
    \/ \E t \in Tasks : PeerSilent(t)

\* The event loop runs every task that is ready: a handler's synchronous code
\* runs on, and a task resumes once what it awaits has completed. Nothing is
\* assumed of the peers.
QuietFairness ==
    /\ \A t \in Tasks :
           /\ WF_vars(\E dbError \in BOOLEAN, thError \in BOOLEAN : Store(t, dbError, thError))
           /\ WF_vars(NextAlert(t))
           /\ WF_vars(SendJson(t))
           /\ WF_vars(Ack(t, TRUE))
    /\ \A k \in Consumers :
           /\ WF_vars(Established(k))
           /\ WF_vars(Heartbeat(k))

QuietSpec == Init /\ [][QuietNext]_vars /\ QuietFairness

\* ------------------------------------------------------------------ claims
Kinds(alerts) == {alerts[n].type : n \in 1..Len(alerts)}

HasAlert(alerts, type, severity) ==
    \E n \in 1..Len(alerts) : alerts[n].type = type /\ alerts[n].severity = severity

\* A call of notify_pharmacists by task t has just ended: it returned to the
\* loop over the alerts, or a ValueError left it.
BroadcastReturned(t) == task[t].pc = "alerts" /\ task[t].a > 1
BroadcastEnded(t) == BroadcastReturned(t) \/ task[t].pc = "raised"

\* C1: a broadcast in which exactly one consumer's send failed has sent the
\* alert to every other consumer that was registered when it started (and is
\* still registered when it ends), and when it returns the failing consumer is
\* no longer in the registry.
C1_OneFailureOthersSent ==
    \A t \in Tasks :
        (BroadcastEnded(t) /\ Len(task[t].dead_connections) = 1) =>
            /\ \A k \in task[t].unsent : ~InList(pharmacist_connections, k)
            /\ BroadcastReturned(t) =>
                   ~InList(pharmacist_connections, task[t].dead_connections[1])

\* C2: under every interleaving, notify_pharmacists never raises to its caller
\* and no producer handler is ended by it.
C2_BroadcastNeverRaises ==
    \A t \in Tasks : task[t].pc # "raised" /\ task[t].error # "ValueError"

\* A producer connection whose patient's entry now holds another connection.
Replaced(t) ==
    /\ task[t].kind = "ws"
    /\ task[t].pc \notin {"idle", "done"}
    /\ \E u \in Tasks \ {t} : active_connections[task[t].patient_id] = Some(u)

\* C3: once a second producer connection has registered for its patient, the
\* first connection persists no further sample and is sent no further
\* acknowledgment.
C3_ReplacedConnectionIsInert ==
    [][\A t \in Tasks :
           Replaced(t) =>
               /\ acks'[t] = acks[t]
               /\ Len(task'[t].results) <= Len(task[t].results)]_vars

\* C4: for a single-sample submission whose persistence failed, no alert of
\* that sample is sent to any consumer.
C4_NoBroadcastOfUnpersisted ==
    \A t \in Tasks :
        (task[t].data_type = "real_time" /\ task[t].pc = "send_json") =>
            task[t].record_id # None

\* C5: the status of the acknowledgment of a single-sample submission whose
\* persistence failed differs from the status sent when persistence succeeds.
C5_FailureAckDiffers ==
    \A t \in Tasks :
        (task[t].pc = "ack" /\ task[t].data_type = "real_time"
         /\ task[t].record_id = None) =>
            AckFrame(task[t]).status
                # AckStatus(task[t].kind, task[t].data_type, Some("id"))

\* The indices of the records stored so far, in order.
RECURSIVE StoredIndices(_, _)
StoredIndices(results, n) ==
    IF n = 0 THEN <<>>
    ELSE IF results[n] # None THEN Append(StoredIndices(results, n - 1), n)
    ELSE StoredIndices(results, n - 1)

\* C6: in a batch, a record that fails persistence never ends the batch: every
\* record up to the current one has been handed to store_gait_data in order,
\* exactly the stored ones have been evaluated, in order, a batch is only ever
\* cut short while a stored record's alert is broadcast, and the batch
\* acknowledgment is sent after all n records with records_processed = n.
C6_BatchSurvivesPersistenceFailure ==
    \A t \in Tasks :
        task[t].data_type = "historical" =>
            LET tk == task[t]
            IN  /\ tk.pc = "store" => Len(tk.results) = tk.i - 1
                /\ tk.pc \in {"alerts", "send_json", "raised"} => Len(tk.results) = tk.i
                /\ tk.evaluated = StoredIndices(tk.results, Len(tk.results))
                /\ tk.pc \in {"send_json", "raised"} => tk.record_id # None
                /\ tk.pc = "ack" =>
                       /\ Len(tk.results) = Len(tk.records)
                       /\ AckFrame(tk).records_processed = Len(tk.records)

\* A batch of two whose first record failed persistence and whose second was
\* stored and evaluated, about to be acknowledged.
C6_Witness ==
    \E t \in Tasks :
        /\ task[t].pc = "ack" /\ task[t].data_type = "historical"
        /\ Len(task[t].records) = 2
        /\ task[t].results[1] = None /\ task[t].results[2] # None
        /\ task[t].evaluated = <<2>>

\* What the specification asks of the three kinds: the field is present and
\* beyond its threshold.
SpeedCondition(data, thresholds) ==
    data.walking_speed # None /\ data.walking_speed[1] < thresholds.speed
AsymmetryCondition(data, thresholds) ==
    data.walking_asymmetry # None /\ data.walking_asymmetry[1] > thresholds.asymmetry
DoubleSupportCondition(data, thresholds) ==
    data.double_support_time # None
    /\ data.double_support_time[1] > thresholds.double_support

\* C7: a speed-low alert of severity high is emitted iff walkingSpeed is present
\* and strictly below the speed threshold (a present 0 included).
C7_SpeedLowIff ==
    last_eval # None =>
        LET e == last_eval[1]
        IN  HasAlert(e.alerts, "walking_speed_low", "high")
                <=> SpeedCondition(e.data, e.thresholds)

\* C8: an asymmetry-high (double-support-high) alert of severity medium is
\* emitted iff the field is present and strictly above its threshold, also for
\* zero or negative thresholds and a present 0.
C8_AsymmetryAndDoubleSupportIff ==
    last_eval # None =>
        LET e == last_eval[1]
        IN  /\ HasAlert(e.alerts, "asymmetry_high", "medium")
                   <=> AsymmetryCondition(e.data, e.thresholds)
            /\ HasAlert(e.alerts, "double_support_high", "medium")
                   <=> DoubleSupportCondition(e.data, e.thresholds)

\* C9: the kinds returned are exactly the kinds whose own condition holds, and
\* each kind is returned at most once.
C9_ExhaustiveAndIndependent ==
    last_eval # None =>
        LET e == last_eval[1]
        IN  /\ Kinds(e.alerts) =
                   {k \in {"walking_speed_low", "asymmetry_high", "double_support_high"} :
                       \/ k = "walking_speed_low" /\ SpeedCondition(e.data, e.thresholds)
                       \/ k = "asymmetry_high" /\ AsymmetryCondition(e.data, e.thresholds)
                       \/ k = "double_support_high"
                              /\ DoubleSupportCondition(e.data, e.thresholds)}
            /\ Cardinality(Kinds(e.alerts)) = Len(e.alerts)

\* C10: an absent field never produces the alert kind tied to it, so a sample
\* without walkingSpeed, walkingAsymmetry and doubleSupportTime yields no alert
\* under any thresholds.
C10_AbsentNeverAlerts ==
    last_eval # None =>
        LET e == last_eval[1]
        IN  /\ e.data.walking_speed = None => "walking_speed_low" \notin Kinds(e.alerts)
            /\ e.data.walking_asymmetry = None => "asymmetry_high" \notin Kinds(e.alerts)
            /\ e.data.double_support_time = None
                   => "double_support_high" \notin Kinds(e.alerts)
            /\ (e.data.walking_speed = None /\ e.data.walking_asymmetry = None
                /\ e.data.double_support_time = None) => e.alerts = <<>>

\* Only stepCount present, evaluated against overridden thresholds.
C10_Witness ==
    /\ last_eval # None
    /\ last_eval[1].data.walking_speed = None
    /\ last_eval[1].data.walking_asymmetry = None
    /\ last_eval[1].data.double_support_time = None
    /\ last_eval[1].data.step_count # None
    /\ last_eval[1].thresholds # DefaultThresholds
    /\ last_eval[1].alerts = <<>>

\* C11: evaluation is deterministic and free of side effects: an evaluation of
\* the sample that was evaluated last, with the threshold table as it was,
\* returns the same alert list, and no evaluation changes the producer map, the
\* consumer list, the threshold table or anything a handler has stored.
C11_DeterministicAndPure ==
    [][/\ (last_eval # None /\ last_eval' # None
           /\ last_eval'[1].data = last_eval[1].data
           /\ patient_thresholds' = patient_thresholds)
              => last_eval'[1].alerts = last_eval[1].alerts
       /\ (last_eval' # None /\ last_eval' # last_eval)
              => UNCHANGED <<DATABASE_URL, patient_thresholds, txn, regvars>>]_vars

\* What a resolve that reaches the database returns from a state of the table.
ResolvedFrom(table, patient_id) ==
    IF table[patient_id] # None
        THEN RowThresholds(table[patient_id][1])
        ELSE DefaultThresholds

\* C12: a committed threshold update leaves every field its body does not
\* supply at the value a resolve returned before it.
C12_PartialUpdateKeepsOthers ==
    [][\A r \in Requests :
           (txn[r] # None /\ txn'[r] = None
            /\ patient_thresholds' # patient_thresholds) =>
               LET u == txn[r][1]
                   before == ResolvedFrom(patient_thresholds, u.patient_id)
                   after == ResolvedFrom(patient_thresholds', u.patient_id)
               IN  /\ u.thresholds.walking_speed_threshold = None
                          => after.speed = before.speed
                   /\ u.thresholds.asymmetry_threshold = None
                          => after.asymmetry = before.asymmetry
                   /\ u.thresholds.double_support_threshold = None
                          => after.double_support = before.double_support]_vars

\* C13: a resolve returns all three fields: the patient's stored override
\* whenever there is one, and the defaults 0.8, 10.0, 30.0 exactly when there
\* is none.
C13_ResolveReturnsOverride ==
    last_eval # None =>
        LET e == last_eval[1]
            row == patient_thresholds[e.data.patient_id]
        IN  /\ DOMAIN e.thresholds = {"speed", "asymmetry", "double_support"}
            /\ row # None => e.thresholds = RowThresholds(row[1])
            /\ row = None => e.thresholds = DefaultThresholds

\* The threshold sets one complete update, or the initial state, produces.
CompleteSets ==
    {DefaultThresholds} \cup {RowThresholds(UpsertRow(b)) : b \in UpdateBodies}

\* C14: under every interleaving of updates and resolves, the three fields a
\* resolve returns, and the three columns of every committed row, come from one
\* complete update or from the initial state.
C14_NoTornThresholds ==
    /\ last_eval # None => last_eval[1].thresholds \in CompleteSets
    /\ \A p \in Patients :
           patient_thresholds[p] # None =>
               RowThresholds(patient_thresholds[p][1]) \in CompleteSets

\* A resolve of an overridden patient while another update of the same patient
\* has executed its statement and not yet committed.
C14_Witness ==
    /\ last_eval # None
    /\ last_eval[1].thresholds # DefaultThresholds
    /\ \E r \in Requests :
           /\ txn[r] # None
           /\ txn[r][1].patient_id = last_eval[1].data.patient_id
           /\ RowThresholds(UpsertRow(txn[r][1].thresholds)) # last_eval[1].thresholds

\* C15: a consumer whose handler has finished (after a failed heartbeat, or a
\* failed first send) is no longer in pharmacist_connections.
C15_HeartbeatFailureUnregisters ==
    \A k \in Consumers :
        pharm[k].pc = "done" => ~InList(pharmacist_connections, k)

\* C16: a failure is contained to its connection: the step that ends a
\* producer handler with an error leaves the registration of every other
\* producer connection as it was, and the error that ends it is that
\* connection's own transport failure, never a consumer's failed send.
C16_FailureContained ==
    [][\A t \in Tasks :
           (task[t].pc # "done" /\ task'[t].pc = "done" /\ task'[t].error # "none") =>
               /\ \A p \in Patients : \A u \in Tasks \ {t} :
                      active_connections[p] = Some(u) => active_connections'[p] = Some(u)
               /\ task'[t].error = "transport"]_vars

\* C19: every single-sample frame received on a producer connection is
\* acknowledged exactly once on that connection: its processing is never
\* abandoned by an error of the broadcast, the acknowledgment comes after the
\* persistence attempt and after every alert was handed to notify_pharmacists,
\* and alerts_triggered is the number of alerts evaluated.
C19_OneAckAfterBroadcast ==
    \A t \in Tasks :
        task[t].kind = "ws" =>
            LET tk == task[t]
            IN  /\ tk.pc = "receive_json" => acks[t] = tk.frames
                /\ tk.pc \in SyncPcs \cup {"send_json"} => acks[t] = tk.frames - 1
                /\ tk.data_type = "real_time" =>
                       /\ tk.pc # "raised"
                       /\ tk.pc = "ack" =>
                              /\ Len(tk.results) = 1
                              /\ tk.a = Len(tk.alerts) + 1
                              /\ AckFrame(tk).alerts_triggered = Len(tk.alerts)

\* C20: unregistration is idempotent: disconnect_patient of a patient that is
\* not registered and disconnect_pharmacist of a consumer that is not in the
\* list leave the registry as it is (the `in` test keeps del and remove() from
\* raising), and applying either twice gives what applying it once gives.
C20_UnregistrationIdempotent ==
    /\ \A p \in Patients :
           LET once == DisconnectPatient(active_connections, p)
           IN  /\ active_connections[p] = None => once = active_connections
               /\ DisconnectPatient(once, p) = once
    /\ \A k \in Consumers :
           LET once == DisconnectPharmacist(pharmacist_connections, k)
           IN  /\ ~InList(pharmacist_connections, k) => once = pharmacist_connections
               /\ DisconnectPharmacist(once, k) = once

\* Both handlers are about to unregister what is no longer registered: a
\* consumer whose first send failed after a broadcast's clean-up removed it
\* (another consumer still listed), and a producer connection whose patient's
\* entry was already deleted.
C20_Witness ==
    /\ \E k \in Consumers :
           /\ pharm[k].pc = "established" /\ ~pharm[k].alive
           /\ ~InList(pharmacist_connections, k)
           /\ pharmacist_connections # <<>>
    /\ \E t \in Tasks :
           /\ task[t].kind = "ws" /\ task[t].pc = "receive_json"
           /\ active_connections[task[t].patient_id] = None

\* The record a task is processing.
Current(tk) == tk.records[tk.i]
Processing(tk) == tk.i >= 1 /\ tk.i <= Len(tk.records)

\* C17: a sample without patient_id is rejected before persistence: it is never
\* handed to store_gait_data, no alert of it is evaluated or broadcast, and the
\* answer to it does not carry the status of an accepted sample.
C17_InvalidRejectedBeforePersistence ==
    \A t \in Tasks :
        (Processing(task[t]) /\ Current(task[t]).patient_id = NoPatientId) =>
            /\ Len(task[t].results) < task[t].i
            /\ task[t].alerts = <<>>
            /\ task[t].pc # "send_json"
            /\ task[t].pc = "ack" =>
                   AckFrame(task[t]).status \notin {"received", "success"}

\* C18: a sample whose walking_speed is not a number yields no alert and does
\* not end the submission: no handler is ended by the TypeError of its
\* evaluation, so the connection stays registered and the acknowledgment, the
\* rest of the batch and the next frame follow.
C18_MalformedDoesNotEndSubmission ==
    \A t \in Tasks :
        /\ task[t].error # "TypeError"
        /\ (Processing(task[t]) /\ CheckRaises(Current(task[t]))) => task[t].alerts = <<>>

\* The sample field and the threshold an alert of each kind is about.
Observed(data, type) ==
    IF type = "walking_speed_low" THEN data.walking_speed
    ELSE IF type = "asymmetry_high" THEN data.walking_asymmetry
    ELSE data.double_support_time
ComparedWith(thresholds, type) ==
    IF type = "walking_speed_low" THEN thresholds.speed
    ELSE IF type = "asymmetry_high" THEN thresholds.asymmetry
    ELSE thresholds.double_support

\* C24: every alert of an evaluation carries the patient_id and timestamp of
\* its sample, the observed value of the triggering field and, as a field of
\* its own, the threshold the value was compared against.
C24_AlertCarriesThreshold ==
    last_eval # None =>
        LET e == last_eval[1]
        IN  \A n \in 1..Len(e.alerts) :
                LET alert == e.alerts[n]
                IN  /\ alert.patient_id = e.data.patient_id
                    /\ alert.timestamp = e.data.timestamp
                    /\ alert.value = Observed(e.data, alert.type)
                    /\ "threshold" \in DOMAIN alert
                    /\ alert.threshold = ComparedWith(e.thresholds, alert.type)

\* A consumer connection that was registered and is no longer in the list.
Unregistered(k) ==
    pharm[k].pc # "idle" /\ ~InList(pharmacist_connections, k)

C25_BroadcastSnapshot ==
    \A t \in Tasks :
        BroadcastEnded(t) =>
            \A k \in task[t].unsent : ~InList(pharmacist_connections, k)

NoDuplicates(list) ==
    \A m, n \in 1..Len(list) : list[m] = list[n] => m = n

\* C26: within one broadcast send_json is called at most once on each consumer
\* connection, and pharmacist_connections never holds a connection twice.
C26_AtMostOncePerConsumer ==
    /\ NoDuplicates(pharmacist_connections)
    /\ \A t \in Tasks : NoDuplicates(task[t].sent)

\* Two broadcasts are suspended in their sends at once, one having sent to two
\* consumers and the other having found a dead one.
C26_Witness ==
    \E t, u \in Tasks :
        /\ t # u
        /\ task[t].pc = "send_json" /\ Len(task[t].sent) = 2
        /\ task[u].pc = "send_json" /\ task[u].dead_connections # <<>>

\* C28: while a producer's store_gait_data call is in progress, the handlers of
\* the other connections can take their steps: another producer's receive, a
\* consumer's registration and a consumer's first send.
C28_PersistenceDoesNotBlock ==
    \A t \in Tasks :
        task[t].pc = "store" =>
            /\ \A u \in Tasks \ {t} :
                   task[u].pc = "receive_json" => ENABLED ReceiveRaises(u)
            /\ \A k \in Consumers :
                   /\ pharm[k].pc = "established" => ENABLED Established(k)
                   /\ (pharm[k].pc = "idle" /\ (k > 1 => pharm[k - 1].pc # "idle"))
                          => ENABLED ConnectPharmacist(k)

\* C29: every consumer in the list has a handler that is still in its loop,
\* and so will send it the next heartbeat.
C29_RegisteredIsHeartbeated ==
    \A k \in Consumers :
        InList(pharmacist_connections, k) => pharm[k].pc \in {"established", "sleep"}

\* The producer connections of patient p whose handlers are running. Tasks are
\* numbered in the order they start, so the greatest is the latest registered.
Running(p) ==
    {t \in Tasks : task[t].kind = "ws" /\ task[t].pc \notin {"idle", "done"}
                   /\ task[t].patient_id = p}
Latest(S) == CHOOSE t \in S : \A u \in S : u <= t

\* C30: the entry of patient p refers to the most recently registered
\* connection for p whose handler is still running; the end of an older
\* connection never deletes it.
C30_NewerRegistrationPreserved ==
    \A p \in Patients :
        Running(p) # {} => active_connections[p] = Some(Latest(Running(p)))

\* The consumers whose sends no longer complete, and whether an ingestion
\* connection is the one its patient is registered with.
Stalled == {k \in Consumers : pharm[k].stalled}
Registered(t) ==
    /\ task[t].patient_id \in Patients
    /\ active_connections[task[t].patient_id] = Some(t)

\* C22: a single consumer whose send never completes loses no alert for the
\* others: while at most one consumer is stalled, every other registered
\* consumer that a broadcast in progress has not yet sent to is eventually sent
\* that alert, and the producer whose frame raised it eventually gets its
\* acknowledgment and is back in receive_json.
C22_SlowConsumerLosesNothing ==
    /\ \A t \in Tasks, k \in Consumers :
           (/\ task[t].pc = "send_json"
            /\ k \in task[t].unsent
            /\ InList(pharmacist_connections, k)
            /\ Stalled \subseteq Consumers \ {k}
            /\ Cardinality(Stalled) <= 1)
           ~> (\/ k \notin task[t].unsent
               \/ k \in Stalled
               \/ Cardinality(Stalled) > 1)
    /\ \A t \in Tasks :
           (task[t].pc = "send_json" /\ Cardinality(Stalled) <= 1)
           ~> (task[t].pc = "receive_json" \/ Cardinality(Stalled) > 1)

\* C23: a registered connection whose peer has silently stopped responding is
\* eventually unregistered: a silent producer leaves active_connections, a
\* stalled consumer leaves pharmacist_connections.
C23_SilentPeerUnregistered ==
    /\ \A t \in Tasks :
           (task[t].silent /\ Registered(t)) ~> ~Registered(t)
    /\ \A k \in Consumers :
           (pharm[k].stalled /\ InList(pharmacist_connections, k))
           ~> ~InList(pharmacist_connections, k)

\* C27: on a producer connection frames are processed in arrival order. A
\* frame is received only when every earlier frame of the connection has been
\* acknowledged; the acknowledgment of frame k is sent when all records of
\* frame k have gone through persistence, evaluation and broadcast, and it is
\* the k-th acknowledgment; the records of a batch are persisted one by one in
\* index order.
C27_FramesInArrivalOrder ==
    [][\A t \in Tasks :
          task[t].kind = "ws" =>
              /\ task[t].pc = "receive_json" => acks[t] = task[t].frames
              /\ task'[t].frames = task[t].frames + 1 =>
                     /\ task[t].pc = "receive_json"
                     /\ acks[t] = task[t].frames
              /\ acks'[t] # acks[t] =>
                     /\ task[t].pc = "ack"
                     /\ Len(task[t].results) = Len(task[t].records)
                     /\ acks'[t] = task[t].frames
              /\ task'[t].results \notin {task[t].results, <<>>} =>
                     /\ task[t].pc = "store"
                     /\ Len(task'[t].results) = task[t].i
                     /\ Len(task[t].results) = task[t].i - 1
                     /\ SubSeq(task'[t].results, 1, task[t].i - 1) = task[t].results
      ]_vars

\* The second record of a batch that is the connection's second frame is about
\* to be persisted, the first frame having been acknowledged.
C27_Witness ==
    \E t \in Tasks :
        /\ task[t].kind = "ws"
        /\ task[t].frames = 2
        /\ acks[t] = 1
        /\ task[t].pc = "store"
        /\ task[t].i = 2

\* C31: in a batch, a record whose persistence failed is not evaluated and
\* starts no broadcast; the next record is persisted only when the current one,
\* if it was stored, has been evaluated and the broadcast of each of its alerts
\* has returned.
C31_BatchRecordSequence ==
    [][\A t \in Tasks :
          task[t].data_type = "historical" =>
              LET tk == task[t]
              IN  /\ (tk.pc = "alerts" /\ task'[t].pc = "send_json") =>
                         /\ tk.record_id # None
                         /\ InList(tk.evaluated, tk.i)
                         /\ tk.a <= Len(tk.alerts)
                  /\ (task'[t].pc = "store" /\ task'[t].i = tk.i + 1) =>
                         /\ tk.pc = "alerts"
                         /\ tk.a = Len(tk.alerts) + 1
                         /\ tk.results[tk.i] = tk.record_id
                         /\ tk.record_id = None =>
                                ~InList(tk.evaluated, tk.i) /\ tk.alerts = <<>>
                         /\ tk.record_id # None => InList(tk.evaluated, tk.i)
      ]_vars

\* The second record of a batch is about to be persisted after the alert of
\* the first, stored, record has been sent to a consumer.
C31_Witness ==
    \E t \in Tasks :
        /\ task[t].data_type = "historical"
        /\ task[t].pc = "store" /\ task[t].i = 2
        /\ task[t].results[1] # None
        /\ task[t].alerts # <<>>
        /\ task[t].sent # <<>>

\* The place of an alert type in the order speed, asymmetry, double support.
Rank(type) ==
    CASE type = "walking_speed_low" -> 1
      [] type = "asymmetry_high" -> 2
      [] type = "double_support_high" -> 3

\* How far a producer connection has got: the frame, the record in it and the
\* alert of that record whose broadcast is next or in progress. A frame that
\* is done counts as past its last record.
Progress(tk) ==
    IF tk.pc \in {"receive_json", "ack"} THEN <<tk.frames, MaxBatch + 1, 0>>
    ELSE IF tk.pc = "store" THEN <<tk.frames, tk.i, 0>>
    ELSE <<tk.frames, tk.i, tk.a>>

LexLeq(x, y) ==
    \/ x[1] < y[1]
    \/ x[1] = y[1] /\ x[2] < y[2]
    \/ x[1] = y[1] /\ x[2] = y[2] /\ x[3] <= y[3]

\* C32: the alerts of one producer connection are sent in the order of its
\* samples and, within a sample, in the order speed, asymmetry, double support.
\* A connection's progress (frame, record, alert) never goes back; every send
\* of a broadcast carries the alert its progress names; the next broadcast is
\* of the next alert and starts when the previous one has returned; within a
\* broadcast no consumer is sent to twice; and an evaluation's alerts are in
\* rank order.
C32_AlertsInSampleOrder ==
    [][\A t \in Tasks :
          (task[t].kind = "ws" /\ task'[t].kind = "ws") =>
              LET tk == task[t]
                  nx == task'[t]
              IN  /\ LexLeq(Progress(tk), Progress(nx))
                  /\ \A n \in 1..(Len(nx.alerts) - 1) :
                         Rank(nx.alerts[n].type) < Rank(nx.alerts[n + 1].type)
                  /\ (nx.pc = "send_json" /\ nx.sent # tk.sent) =>
                         /\ nx.a \in 1..Len(nx.alerts)
                         /\ nx.alerts = tk.alerts
                         /\ Progress(nx) = Progress(tk)
                         /\ tk.pc = "send_json" =>
                                ~InList(tk.sent, nx.sent[Len(nx.sent)])
                  /\ (tk.pc = "send_json" /\ nx.pc = "alerts") =>
                         /\ nx.a = tk.a + 1
                         /\ nx.alerts = tk.alerts
      ]_vars

\* The third alert of a batch's second sample is being sent to a consumer that
\* the connection's earlier broadcasts have not removed.
C32_Witness ==
    \E t \in Tasks :
        /\ task[t].kind = "ws"
        /\ task[t].pc = "send_json"
        /\ task[t].i = 2 /\ task[t].a = 3
        /\ task[t].alerts[3].type = "double_support_high"
        /\ Len(task[t].sent) = 2

\* C33: a step of a broadcast (the start of notify_pharmacists, or its
\* resumption after a send) leaves the producer map alone, adds no consumer,
\* keeps the order of the consumers it keeps, and removes only consumers whose
\* send raised in this same broadcast; on an empty list it sends nothing and
\* changes nothing.
C33_BroadcastOnlyPrunesFailed ==
    [][\A t \in Tasks :
          (task'[t] # task[t] /\ task[t].pc \in {"alerts", "send_json"}) =>
              /\ active_connections' = active_connections
              /\ pharm' = pharm
              /\ pharmacist_connections' =
                     SelectSeq(pharmacist_connections,
                               LAMBDA k : InList(pharmacist_connections', k))
              /\ \A k \in Range(pharmacist_connections) :
                     ~InList(pharmacist_connections', k) =>
                         /\ InList(task[t].sent, k)
                         /\ InList(task'[t].dead_connections, k)
                         /\ ~pharm[k].alive
              /\ (/\ task[t].pc = "alerts"
                  /\ task[t].a <= Len(task[t].alerts)
                  /\ pharmacist_connections = <<>>) =>
                     /\ task'[t].pc # "send_json"
                     /\ task'[t].sent = <<>>
                     /\ pharmacist_connections' = <<>>
      ]_vars

\* A broadcast has returned after removing the one consumer whose send failed
\* and keeping one whose send succeeded.
C33_Witness ==
    \E t \in Tasks :
        /\ BroadcastReturned(t)
        /\ Len(task[t].sent) = 2
        /\ Len(task[t].dead_connections) = 1
        /\ ~InList(pharmacist_connections, task[t].dead_connections[1])
        /\ \E k \in Range(task[t].sent) : InList(pharmacist_connections, k)

\* C34: an evaluation compares the sample with the thresholds the table holds
\* for the sample's patient at that moment (the defaults when it holds none),
\* so that no completed update is missed, and an update of one patient's row
\* leaves every other patient's row as it was.
C34_EvaluationUsesStoredThresholds ==
    [][/\ (last_eval' # None /\ last_eval' # last_eval) =>
              LET e == last_eval'[1]
                  stored == ResolvedFrom(patient_thresholds, e.data.patient_id)
              IN  /\ e.thresholds = stored
                  /\ e.alerts = CheckForAlerts(e.data, stored)
       /\ \A p \in Patients :
              patient_thresholds'[p] # patient_thresholds[p] =>
                  \A q \in Patients \ {p} :
                      patient_thresholds'[q] = patient_thresholds[q]
      ]_vars

\* C35: for the same payload, in the same state of the store and of the
\* registry and with the same outcomes of the database calls, receive_gait_data
\* and the real-time branch of websocket_endpoint hand the same record to
\* store_gait_data, evaluate the same alerts, send the same alerts in the same
\* order to the same consumers, leave the same consumer list, end by the same
\* exception if by any, and report the same record id and the same number of
\* alerts (under the keys 'alerts' and 'alerts_triggered').
C35_HttpEquivalentToRealTimeFrame ==
    \A p \in Patients : \A data \in TwinSamples(p) :
        \A dbError \in BOOLEAN, thError \in BOOLEAN :
            LET http == ReceiveGaitData(data, dbError, thError)
                ws == RealTimeFrame(data, dbError, thError)
            IN  /\ http.stored = ws.stored
                /\ http.record_id = ws.record_id
                /\ http.alerts = ws.alerts
                /\ http.sends = ws.sends
                /\ http.list = ws.list
                /\ http.error = ws.error
                /\ (http.body = None) <=> (ws.body = None)
                /\ http.body # None =>
                       /\ http.body[1].record_id = ws.body[1].record_id
                       /\ http.body[1].alerts = ws.body[1].alerts_triggered

\* A real-time frame has been acknowledged, an override is stored, and the
\* registry holds a consumer whose peer is gone and one whose peer is not, so
\* that a submission of three alerts is broadcast, prunes the list and is
\* reported.
C35_Witness ==
    /\ \E t \in Tasks : acks[t] = 1
    /\ patient_thresholds["p1"] # None
    /\ \E k \in Consumers : InList(pharmacist_connections, k) /\ ~pharm[k].alive
    /\ LET http == ReceiveGaitData(Triple("p1"), FALSE, TRUE)
       IN  /\ Len(http.sends) = 4
           /\ Len(http.list) = 1
           /\ http.record_id # None
           /\ http.body # None /\ http.body[1].alerts = 3

====
